---- MODULE Spec2Model ----
(***************************************************************************)
(* Model of shadow-rs' constant registry and code emission pipeline        *)
(* (src/src/shadow.rs): Shadow::build_inner, filter_deny, write_all,       *)
(* gen_header, gen_const, write_const, gen_version, gen_build_in, hook.    *)
(*                                                                         *)
(* Strings that the code inspects or converts (identifiers, raw values)    *)
(* are sequences of bytes, so that to_ascii_uppercase, is_empty,           *)
(* parse::<bool> and the BTreeMap ordering of &str keys are computed.      *)
(* The output file is the sequence of the chunks written to it, one chunk  *)
(* per writeln! call.  The default feature set (not no_std) is modelled.   *)
(***************************************************************************)
EXTENDS Integers, Sequences, FiniteSets, TLC

\* ------------------------------------------------------------------------
\* Bounds
\* ------------------------------------------------------------------------

\* DateTime::now() is drawn from 0..MaxTime
MaxTime == 1

\* ------------------------------------------------------------------------
\* Identifiers (ShadowConst = &'static str), as bytes
\* ------------------------------------------------------------------------

\* "TAG"
TAG == <<84, 65, 71>>

\* "CARGO_TREE"
CARGO_TREE == <<67, 65, 82, 71, 79, 95, 84, 82, 69, 69>>

\* "tag": an identifier that is not all upper-case
LowerTag == <<116, 97, 103>>

\* "VERSION"
BUILD_CONST_VERSION == <<86, 69, 82, 83, 73, 79, 78>>

\* "CLAP_LONG_VERSION"
BUILD_CONST_CLAP_LONG_VERSION ==
    <<67, 76, 65, 80, 95, 76, 79, 78, 71, 95, 86, 69, 82, 83, 73, 79, 78>>

\* identifiers the metadata sources may supply
Idents == {TAG, CARGO_TREE, LowerTag}

\* identifiers a caller may put in the deny set
DenyIdents == {TAG, CARGO_TREE, BUILD_CONST_VERSION}

\* ------------------------------------------------------------------------
\* Raw values (ConstVal.v), as bytes
\* ------------------------------------------------------------------------

EmptyStr == <<>>
\* "v1.2.0"
V120 == <<118, 49, 46, 50, 46, 48>>
\* "true"
TrueLit == <<116, 114, 117, 101>>
\* "false"
FalseLit == <<102, 97, 108, 115, 101>>
\* "notabool"
NotABool == <<110, 111, 116, 97, 98, 111, 111, 108>>
\* "ab"
AB == <<97, 98>>
\* "tree"
Tree == <<116, 114, 101, 101>>

ConstType == {"Str", "Bool", "Slice"}

ConstVal(desc, v, t) == [desc |-> desc, v |-> v, t |-> t]

\* what each metadata source may return for an identifier
GitOffers ==
    [k \in Idents |->
        IF k = TAG THEN {ConstVal("git tag", EmptyStr, "Str"),
                         ConstVal("git tag", V120, "Str")}
        ELSE IF k = CARGO_TREE THEN {ConstVal("git", AB, "Slice")}
        ELSE {}]

ProjectOffers ==
    [k \in Idents |->
        IF k = TAG THEN {ConstVal("project tag", V120, "Str")}
        ELSE IF k = CARGO_TREE THEN {ConstVal("project", TrueLit, "Bool"),
                                     ConstVal("project", NotABool, "Bool")}
        ELSE {}]

SystemEnvOffers ==
    [k \in Idents |->
        IF k = CARGO_TREE THEN {ConstVal("cargo tree", Tree, "Str")}
        ELSE IF k = LowerTag THEN {ConstVal("env", FalseLit, "Bool"),
                                   ConstVal("env", AB, "Slice")}
        ELSE {}]

AllVals == UNION {GitOffers[k] \cup ProjectOffers[k] \cup SystemEnvOffers[k] : k \in Idents}

\* ------------------------------------------------------------------------
\* &str ordering and conversions
\* ------------------------------------------------------------------------

\* Ord for &str: byte-wise lexicographic
RECURSIVE StrLess(_, _)
StrLess(a, b) ==
    IF Len(b) = 0 THEN FALSE
    ELSE IF Len(a) = 0 THEN TRUE
    ELSE IF Head(a) < Head(b) THEN TRUE
    ELSE IF Head(a) > Head(b) THEN FALSE
    ELSE StrLess(Tail(a), Tail(b))

\* u8::to_ascii_uppercase
ByteUpper(c) == IF c >= 97 /\ c <= 122 THEN c - 32 ELSE c

\* str::to_ascii_uppercase
to_ascii_uppercase(s) == [i \in 1..Len(s) |-> ByteUpper(s[i])]

\* str::parse::<bool>: Ok(true), Ok(false) or Err
parse_bool(v) ==
    IF v = TrueLit THEN [ok |-> TRUE, b |-> TRUE]
    ELSE IF v = FalseLit THEN [ok |-> TRUE, b |-> FALSE]
    ELSE [ok |-> FALSE, b |-> FALSE]

\* Display of bool
BoolText(b) == IF b THEN TrueLit ELSE FalseLit

\* ------------------------------------------------------------------------
\* BTreeMap<ShadowConst, ConstVal> as the sequence of its entries in
\* iteration order
\* ------------------------------------------------------------------------

Entry(k, v) == [k |-> k, v |-> v]

KeySeq(m) == [i \in 1..Len(m) |-> m[i].k]

KeySet(m) == {m[i].k : i \in 1..Len(m)}

\* BTreeMap::get
BTreeGet(m, k) ==
    IF \E i \in 1..Len(m) : m[i].k = k
    THEN [some |-> TRUE, v |-> (m[CHOOSE i \in 1..Len(m) : m[i].k = k]).v]
    ELSE [some |-> FALSE, v |-> ConstVal("", EmptyStr, "Str")]

\* BTreeMap::insert that would keep the value already stored for the key
BTreeInsertKeep(m, k, v) ==
    IF \E i \in 1..Len(m) : m[i].k = k
    THEN m
    ELSE LET n == Cardinality({i \in 1..Len(m) : StrLess(m[i].k, k)})
         IN  SubSeq(m, 1, n) \o <<Entry(k, v)>> \o SubSeq(m, n + 1, Len(m))

\* BTreeMap::insert: replaces the value of an existing key, else places the
\* entry at its position in key order
BTreeInsert(m, k, v) ==
    IF \E i \in 1..Len(m) : m[i].k = k
    THEN [i \in 1..Len(m) |-> IF m[i].k = k THEN Entry(k, v) ELSE m[i]]
    ELSE LET n == Cardinality({i \in 1..Len(m) : StrLess(m[i].k, k)})
         IN  SubSeq(m, 1, n) \o <<Entry(k, v)>> \o SubSeq(m, n + 1, Len(m))

\* BTreeMap::remove
BTreeRemove(m, k) == SelectSeq(m, LAMBDA e : e.k # k)

\* for (k, v) in src { map.insert(k, v); }
RECURSIVE InsertAll(_, _)
InsertAll(m, src) ==
    IF Len(src) = 0 THEN m
    ELSE InsertAll(BTreeInsert(m, Head(src).k, Head(src).v), Tail(src))

\* the BTreeMap a source returns, built from a finite function
RECURSIVE BTreeOf(_)
BTreeOf(fn) ==
    IF DOMAIN fn = {} THEN <<>>
    ELSE LET k == CHOOSE x \in DOMAIN fn : \A y \in DOMAIN fn : x = y \/ StrLess(x, y)
             rest == [y \in (DOMAIN fn) \ {k} |-> fn[y]]
         IN  <<Entry(k, fn[k])>> \o BTreeOf(rest)

\* every map a source with the given offers may return
SourceMaps(offers) ==
    {BTreeOf(fn) : fn \in UNION {{g \in [D -> AllVals] : \A k \in D : g[k] \in offers[k]}
                                   : D \in SUBSET Idents}}

\* a BTreeSet<ShadowConst> in iteration order
RECURSIVE BTreeSetSeq(_)
BTreeSetSeq(S) ==
    IF S = {} THEN <<>>
    ELSE LET k == CHOOSE x \in S : \A y \in S : x = y \/ StrLess(x, y)
         IN  <<k>> \o BTreeSetSeq(S \ {k})

\* ------------------------------------------------------------------------
\* State
\* ------------------------------------------------------------------------

VARIABLES
    pc,            \* position in build_inner
    result,        \* "none" while running, then what build_inner returned
    f,             \* shadow.f: the chunks written to the output file
    map,           \* the local map / shadow.map
    deny_const,    \* shadow.deny_const
    has_hook,      \* builder.get_hook().is_some()
    git,           \* what new_git returned
    project,       \* what new_project returned
    system_env,    \* what new_system_env returned
    merged,        \* shadow.map as assigned at line 162
    filter_count,  \* number of filter_deny calls
    rerun,         \* the calls of build_pattern.rerun_if
    idx,           \* gen_const loop position
    ver_sel,       \* (ver_fn, clap_long_ver_fn) chosen by gen_version
    hook_calls,    \* number of invocations of the hook function
    hook_ret,      \* what the hook function returned
    run,           \* 1, or 2 during a repeated emission
    prev_f         \* the file written by the first emission

vars == <<pc, result, f, map, deny_const, has_hook, git, project, system_env,
          merged, filter_count, rerun, idx, ver_sel, hook_calls, hook_ret,
          run, prev_f>>

inputs == <<deny_const, has_hook>>
sources == <<git, project, system_env>>
second == <<run, prev_f>>

Init ==
    /\ pc = "start"
    /\ result = "none"
    /\ f = <<>>
    /\ map = <<>>
    /\ deny_const \in SUBSET DenyIdents
    /\ has_hook \in BOOLEAN
    /\ git = <<>>
    /\ project = <<>>
    /\ system_env = <<>>
    /\ merged = <<>>
    /\ filter_count = 0
    /\ rerun = <<>>
    /\ idx = 0
    /\ ver_sel = <<>>
    /\ hook_calls = 0
    /\ hook_ret = "none"
    /\ run = 1
    /\ prev_f = <<>>

\* ------------------------------------------------------------------------
\* build_inner: configuration, file creation, merge, deny filter
\* ------------------------------------------------------------------------

\* lines 128-153: get_out_path / get_src_path may fail, File::create may fail
BuildInnerCreate ==
    /\ pc = "start"
    /\ \E outcome \in {"Ok", "EnvError", "IOError"} :
         IF outcome = "Ok"
         THEN pc' = "new_git" /\ result' = result
         ELSE pc' = "returned" /\ result' = outcome
    /\ UNCHANGED <<f, map, inputs, sources, merged, filter_count, rerun, idx,
                   ver_sel, hook_calls, hook_ret, second>>

\* line 155: let mut map = new_git(...)
NewGit ==
    /\ pc = "new_git"
    /\ \E g \in SourceMaps(GitOffers) :
         /\ git' = g
         /\ map' = g
    /\ pc' = "new_project"
    /\ UNCHANGED <<result, f, inputs, project, system_env, merged, filter_count,
                   rerun, idx, ver_sel, hook_calls, hook_ret, second>>

\* lines 156-158
MergeProject ==
    /\ pc = "new_project"
    /\ \E p \in SourceMaps(ProjectOffers) :
         /\ project' = p
         /\ map' = InsertAll(map, p)
    /\ pc' = "new_system_env"
    /\ UNCHANGED <<result, f, inputs, git, system_env, merged, filter_count,
                   rerun, idx, ver_sel, hook_calls, hook_ret, second>>

\* lines 159-162
MergeSystemEnv ==
    /\ pc = "new_system_env"
    /\ \E s \in SourceMaps(SystemEnvOffers) :
         /\ system_env' = s
         /\ map' = InsertAll(map, s)
         /\ merged' = InsertAll(map, s)
    /\ pc' = "filter_deny"
    /\ UNCHANGED <<result, f, inputs, git, project, filter_count,
                   rerun, idx, ver_sel, hook_calls, hook_ret, second>>

\* lines 177-181: remove every denied identifier, in the set's order
RECURSIVE RemoveAll(_, _)
RemoveAll(m, ds) ==
    IF Len(ds) = 0 THEN m
    ELSE RemoveAll(BTreeRemove(m, Head(ds)), Tail(ds))

\* a filter that would stop after the first denied identifier
filter_deny_first(m, deny) ==
    IF deny = {} THEN m ELSE BTreeRemove(m, Head(BTreeSetSeq(deny)))

filter_deny(m, deny) == RemoveAll(m, BTreeSetSeq(deny))

\* line 165
FilterDeny ==
    /\ pc = "filter_deny"
    /\ map' = filter_deny(map, deny_const)
    /\ filter_count' = filter_count + 1
    /\ pc' = "gen_header"
    /\ UNCHANGED <<result, f, inputs, sources, merged, rerun, idx, ver_sel,
                   hook_calls, hook_ret, second>>

\* ------------------------------------------------------------------------
\* The output file: one chunk per writeln!
\* ------------------------------------------------------------------------

Chunk(kind, time, name, t, text, lit, lines) ==
    [kind |-> kind, time |-> time, name |-> name, t |-> t, text |-> text,
     lit |-> lit, lines |-> lines]

\* lines 207-214: banner and generation time
HeaderChunk(now) == Chunk("header", now, <<>>, "", "", <<>>, <<>>)

\* a doc line that would carry the generation time of the header
DocChunkTimed(val) ==
    Chunk("doc", IF Len(f) > 0 THEN f[1].time ELSE 0, <<>>, "", val.desc, <<>>, <<>>)

\* line 219: #[doc=r#"{desc}"#]
DocChunk(val) == Chunk("doc", 0, <<>>, "", val.desc, <<>>, <<>>)

\* lines 220-248: pub const {NAME} :{type} = {literal};
\*   Str   -> raw string literal of val.v
\*   Bool  -> the parsed boolean
\*   Slice -> debug form of val.v.as_bytes()
DefineChunk(shadow_const, val) ==
    Chunk("define", 0, to_ascii_uppercase(shadow_const), val.t, "",
          IF val.t = "Bool" THEN BoolText(parse_bool(val.v).b) ELSE val.v,
          <<>>)

\* lines 250-251: the doc line, then the definition
write_const(shadow_const, val) == <<DocChunk(val), DefineChunk(shadow_const, val)>>

\* the unwrap at line 237 panics
write_const_panics(val) == val.t = "Bool" /\ ~parse_bool(val.v).ok

\* lines 256-265: the pair of version functions
BranchPair == <<"version_branch_const", "clap_long_version_branch_const">>
TagPair == <<"version_tag_const", "clap_long_version_tag_const">>

\* a selection that would take the tag pair for any present tag
gen_version_select_present(m) ==
    IF BTreeGet(m, TAG).some THEN TagPair ELSE BranchPair

gen_version_select(m) ==
    LET tag == BTreeGet(m, TAG)
    IN  IF ~tag.some THEN BranchPair
        ELSE IF Len(tag.v.v) # 0 THEN TagPair
        ELSE BranchPair

VersionChunk(fn) == Chunk("version_fn", 0, <<>>, "", fn, <<>>, <<>>)

\* lines 266-267
gen_version_writes(sel) == <<VersionChunk(sel[1]), VersionChunk(sel[2])>>

\* lines 276-292: the println! lines of print_build_in
PrintLine(label, ref, fmt) == [label |-> label, ref |-> ref, fmt |-> fmt]

ConstPrintLine(e) ==
    IF e.v.t = "Slice" THEN PrintLine(e.k, e.k, "debug")
    ELSE PrintLine(e.k, e.k, "display")

print_val(m, gen_const) ==
    [i \in 1..Len(m) |-> ConstPrintLine(m[i])]
    \o [i \in 1..Len(gen_const) |-> PrintLine(gen_const[i], gen_const[i], "display")]

\* lines 296-305
PrintBuildInChunk(m, gen_const) ==
    Chunk("print_build_in", 0, <<>>, "", "", <<>>, print_val(m, gen_const))

\* line 308
CargoMetadataChunk == Chunk("cargo_metadata_fn", 0, <<>>, "", "", <<>>, <<>>)

\* a dump written after the metadata summary
gen_build_in_swapped(m, gen_const) ==
    <<CargoMetadataChunk, PrintBuildInChunk(m, gen_const)>>

\* lines 305, 308: print_build_in, then cargo_metadata_fn
gen_build_in(m, gen_const) ==
    <<PrintBuildInChunk(m, gen_const), CargoMetadataChunk>>

\* lines 91-92
HookBannerChunk == Chunk("hook_banner", 0, <<>>, "", "", <<>>, <<>>)

\* whatever the hook function writes
HookOutChunk == Chunk("hook_out", 0, <<>>, "", "", <<>>, <<>>)

\* what a hook function may return
HookResults == {"Ok", "HookError1", "HookError2"}

\* ------------------------------------------------------------------------
\* write_all
\* ------------------------------------------------------------------------

\* an error that would be recorded without leaving write_all
FailSwallowed(err) == pc' = "write_all_done" /\ result' = err

\* the ? operator: the error is returned from write_all and build_inner
Fail(err) == pc' = "returned" /\ result' = err

\* the first n of the chunks reach the file
Written(chunks, n) == SubSeq(chunks, 1, n)

\* lines 184, 206-216
GenHeader ==
    /\ pc = "gen_header"
    /\ \E now \in 0..MaxTime, ok \in BOOLEAN :
         IF ok
         THEN /\ f' = Append(f, HeaderChunk(now))
              /\ pc' = "gen_const"
              /\ result' = result
         ELSE /\ f' = f
              /\ Fail("IOError")
    /\ UNCHANGED <<map, inputs, sources, merged, filter_count, rerun, idx,
                   ver_sel, hook_calls, hook_ret, second>>

\* lines 197-198: build_pattern.rerun_if(self.map.keys(), out_dir)
GenConstRerunIf ==
    /\ pc = "gen_const"
    /\ rerun' = Append(rerun, [keys |-> KeySeq(map), at |-> Len(f)])
    /\ idx' = 1
    /\ pc' = IF Len(map) = 0 THEN "gen_version" ELSE "write_const"
    /\ UNCHANGED <<result, f, map, inputs, sources, merged, filter_count,
                   ver_sel, hook_calls, hook_ret, second>>

\* lines 200-202, 218-253: one iteration of the loop over self.map.clone()
WriteConst ==
    /\ pc = "write_const"
    /\ idx <= Len(map)
    /\ LET e == map[idx] IN
       IF write_const_panics(e.v)
       THEN /\ f' = f
            /\ idx' = idx
            /\ Fail("panic")
       ELSE \E n \in 0..2 :
              /\ f' = f \o Written(write_const(e.k, e.v), n)
              /\ IF n = 2
                 THEN /\ idx' = idx + 1
                      /\ pc' = IF idx = Len(map) THEN "gen_version" ELSE "write_const"
                      /\ result' = result
                 ELSE /\ idx' = idx
                      /\ Fail("IOError")
    /\ UNCHANGED <<map, inputs, sources, merged, filter_count, rerun,
                   ver_sel, hook_calls, hook_ret, second>>

\* lines 189, 255-270
GenVersion ==
    /\ pc = "gen_version"
    /\ ver_sel' = gen_version_select(map)
    /\ \E n \in 0..2 :
         /\ f' = f \o Written(gen_version_writes(ver_sel'), n)
         /\ IF n = 2
            THEN pc' = "gen_build_in" /\ result' = result
            ELSE Fail("IOError")
    /\ UNCHANGED <<map, inputs, sources, merged, filter_count, rerun, idx,
                   hook_calls, hook_ret, second>>

\* lines 191, 272-312, called with [BUILD_CONST_VERSION, BUILD_CONST_CLAP_LONG_VERSION]
GenBuildIn ==
    /\ pc = "gen_build_in"
    /\ LET gen_const == <<BUILD_CONST_VERSION, BUILD_CONST_CLAP_LONG_VERSION>>
       IN \E n \in 0..2 :
         /\ f' = f \o Written(gen_build_in(map, gen_const), n)
         /\ IF n = 2
            THEN pc' = "write_all_done" /\ result' = result
            ELSE Fail("IOError")
    /\ UNCHANGED <<map, inputs, sources, merged, filter_count, rerun, idx,
                   ver_sel, hook_calls, hook_ret, second>>

\* ------------------------------------------------------------------------
\* build_inner: the hook and the return
\* ------------------------------------------------------------------------

\* a return that would drop the hook's error
BuildInnerReturnOk(hook_result) == "Ok"

\* lines 171-174: shadow.hook(..)? then Ok(shadow)
BuildInnerReturn(hook_result) ==
    IF hook_result = "Ok" THEN "Ok" ELSE hook_result

\* lines 170, 174: no hook, Ok(shadow)
ReturnOk ==
    /\ pc = "write_all_done"
    /\ ~has_hook
    /\ pc' = "returned"
    /\ result' = "Ok"
    /\ UNCHANGED <<f, map, inputs, sources, merged, filter_count, rerun, idx,
                   ver_sel, hook_calls, hook_ret, second>>

\* lines 170-174, 87-95: banner, then the hook function, whose error is returned
Hook ==
    /\ pc = "write_all_done"
    /\ has_hook
    /\ pc' = "returned"
    /\ \/ /\ f' = f
          /\ result' = "IOError"
          /\ UNCHANGED <<hook_calls, hook_ret>>
       \/ \E r \in HookResults, wrote \in BOOLEAN :
            /\ f' = IF wrote THEN f \o <<HookBannerChunk, HookOutChunk>>
                    ELSE Append(f, HookBannerChunk)
            /\ hook_calls' = hook_calls + 1
            /\ hook_ret' = r
            /\ result' = BuildInnerReturn(r)
    /\ UNCHANGED <<map, inputs, sources, merged, filter_count, rerun, idx,
                   ver_sel, second>>

\* a second emission over the same shadow: the file is created anew and
\* write_all runs again
SecondEmission ==
    /\ pc = "write_all_done"
    /\ run = 1
    /\ run' = 2
    /\ prev_f' = f
    /\ f' = <<>>
    /\ rerun' = <<>>
    /\ idx' = 0
    /\ ver_sel' = <<>>
    /\ pc' = "gen_header"
    /\ UNCHANGED <<result, map, inputs, sources, merged, filter_count,
                   hook_calls, hook_ret>>

Next ==
    \/ BuildInnerCreate
    \/ NewGit
    \/ MergeProject
    \/ MergeSystemEnv
    \/ FilterDeny
    \/ GenHeader
    \/ GenConstRerunIf
    \/ WriteConst
    \/ GenVersion
    \/ GenBuildIn
    \/ ReturnOk
    \/ Hook

Spec == Init /\ [][Next]_vars

NextTwo == Next \/ SecondEmission

SpecTwo == Init /\ [][NextTwo]_vars

TypeOK ==
    /\ pc \in {"start", "new_git", "new_project", "new_system_env", "filter_deny",
               "gen_header", "gen_const", "write_const", "gen_version",
               "gen_build_in", "write_all_done", "returned"}
    /\ result \in {"none", "Ok", "EnvError", "IOError", "panic"} \cup HookResults
    /\ deny_const \subseteq DenyIdents
    /\ KeySet(map) \subseteq Idents
    /\ run \in {1, 2}

\* ------------------------------------------------------------------------
\* Helpers for the properties
\* ------------------------------------------------------------------------

IsPrefix(a, b) == Len(a) <= Len(b) /\ SubSeq(b, 1, Len(a)) = a

KindSeq(file) == [i \in 1..Len(file) |-> file[i].kind]

ChunksOfKind(file, kind) == SelectSeq(file, LAMBDA c : c.kind = kind)

\* strictly ascending keys
Ascending(keys) == \A i \in 1..(Len(keys) - 1) : StrLess(keys[i], keys[i + 1])

\* the value the latest supplying source gives for k, sources in the order
\* version control, project, system environment
Supplies(src, k) == \E i \in 1..Len(src) : src[i].k = k

ValueIn(src, k) == (src[CHOOSE i \in 1..Len(src) : src[i].k = k]).v

\* the filter has run
Filtered == filter_count > 0

\* ------------------------------------------------------------------------
\* C1
\* ------------------------------------------------------------------------

\* C1: after filter_deny the registry holds no identifier of the deny set,
\* and holds every key of the merged registry that is not denied, with the
\* value it had in the merged registry.
C1_FilterDeny ==
    Filtered =>
        /\ \A d \in deny_const : d \notin KeySet(map)
        /\ \A i \in 1..Len(merged) :
             merged[i].k \notin deny_const =>
                 /\ Cardinality({j \in 1..Len(map) : map[j].k = merged[i].k}) = 1
                 /\ BTreeGet(map, merged[i].k).v = merged[i].v

\* two denied keys were removed and another key was kept
C1_Witness ==
    /\ Filtered
    /\ Len(merged) = 3
    /\ Len(map) = 1
    /\ Cardinality(deny_const) >= 2

\* ------------------------------------------------------------------------
\* C2
\* ------------------------------------------------------------------------

VersionFnsWritten == [i \in 1..Len(ChunksOfKind(f, "version_fn")) |->
                         ChunksOfKind(f, "version_fn")[i].text]

TagPresentNonEmpty == \E i \in 1..Len(map) : map[i].k = TAG /\ map[i].v.v # <<>>

\* C2: gen_version selects the tag pair exactly when TAG is present and
\* non-empty, the branch pair otherwise; the version functions in the file
\* are functions of the selected pair, in its order, and both of them once
\* gen_version has written without an error.
C2_VersionPair ==
    ver_sel # <<>> =>
        /\ ver_sel \in {BranchPair, TagPair}
        /\ (ver_sel = TagPair) <=> TagPresentNonEmpty
        /\ (ver_sel = BranchPair) <=> ~TagPresentNonEmpty
        /\ IsPrefix(VersionFnsWritten, ver_sel)
        /\ result # "IOError" => VersionFnsWritten = ver_sel

\* the tag pair was written for a non-empty tag
C2_Witness ==
    /\ TagPresentNonEmpty
    /\ VersionFnsWritten = TagPair

\* the branch pair was written for a present but empty tag
C2_WitnessEmptyTag ==
    /\ \E i \in 1..Len(map) : map[i].k = TAG /\ map[i].v.v = <<>>
    /\ VersionFnsWritten = BranchPair

\* ------------------------------------------------------------------------
\* C3
\* ------------------------------------------------------------------------

LastWrite(k) ==
    IF Supplies(system_env, k) THEN ValueIn(system_env, k)
    ELSE IF Supplies(project, k) THEN ValueIn(project, k)
    ELSE ValueIn(git, k)

\* C3: the merged registry holds, for every identifier some source supplies,
\* exactly one entry, whose value is that of the latest supplying source in
\* the order version control, project, system environment; it holds no other
\* identifier.
C3_LastWriteWins ==
    pc = "filter_deny" =>
        /\ map = merged
        /\ \A k \in Idents :
             IF Supplies(git, k) \/ Supplies(project, k) \/ Supplies(system_env, k)
             THEN /\ Cardinality({i \in 1..Len(map) : map[i].k = k}) = 1
                  /\ BTreeGet(map, k).v = LastWrite(k)
             ELSE k \notin KeySet(map)
        /\ KeySet(map) \subseteq Idents

\* one key supplied by all three sources, another by the first two only
C3_Witness ==
    /\ pc = "filter_deny"
    /\ Supplies(git, CARGO_TREE) /\ Supplies(project, CARGO_TREE)
    /\ Supplies(system_env, CARGO_TREE)
    /\ Supplies(git, TAG) /\ Supplies(project, TAG)
    /\ ValueIn(git, TAG) # ValueIn(project, TAG)

\* ------------------------------------------------------------------------
\* C4
\* ------------------------------------------------------------------------

\* emission stopped at a Bool entry whose raw value is not a boolean
StoppedAtBadBool ==
    /\ pc = "returned"
    /\ idx \in 1..Len(map)
    /\ write_const_panics(map[idx].v)

\* C4: a Bool entry whose raw value does not parse ends the run with a
\* MalformedConstant error returned to the caller, and no definition is
\* written for the entry.
C4_MalformedConstant ==
    StoppedAtBadBool =>
        /\ result = "MalformedConstant"
        /\ \A i \in 1..Len(f) :
             f[i].kind = "define" => f[i].name # to_ascii_uppercase(map[idx].k)

\* ------------------------------------------------------------------------
\* C5
\* ------------------------------------------------------------------------

DefinedNames == {f[i].name : i \in {j \in 1..Len(f) : f[j].kind = "define"}}

DumpLines == UNION {{f[i].lines[j] : j \in 1..Len(f[i].lines)}
                      : i \in {j \in 1..Len(f) : f[j].kind = "print_build_in"}}

\* C5: the deny filter runs exactly once, after the merge and before the
\* rebuild-trigger selection and before any constant is written, so no
\* denied identifier is passed to rerun_if, defined as a constant, or given
\* a line of print_build_in.
C5_DenyBeforeEmission ==
    /\ filter_count <= 1
    /\ (rerun # <<>> \/ f # <<>>) => filter_count = 1
    /\ Filtered => pc \notin {"start", "new_git", "new_project", "new_system_env"}
    /\ \A d \in deny_const :
         /\ \A i \in 1..Len(rerun) : \A j \in 1..Len(rerun[i].keys) : rerun[i].keys[j] # d
         /\ d \notin DefinedNames
         /\ \A l \in DumpLines : l.label # d /\ l.ref # d

\* ------------------------------------------------------------------------
\* C6
\* ------------------------------------------------------------------------

RECURSIVE ConstKinds(_)
ConstKinds(n) == IF n = 0 THEN <<>> ELSE <<"doc", "define">> \o ConstKinds(n - 1)

CoreKinds(n) ==
    <<"header">> \o ConstKinds(n)
    \o <<"version_fn", "version_fn", "print_build_in", "cargo_metadata_fn">>

\* C6: a successful run writes the header, then calls rerun_if, then writes
\* a doc line and a definition per registry entry in ascending key order,
\* then the two version functions, print_build_in and the metadata summary;
\* with a hook, the custom banner and the hook's output follow.
C6_EmissionOrder ==
    result = "Ok" =>
        /\ IsPrefix(CoreKinds(Len(map)), KindSeq(f))
        /\ rerun = <<[keys |-> KeySeq(map), at |-> 1]>>
        /\ Ascending(KeySeq(map))
        /\ \A i \in 1..Len(map) :
             /\ f[2 * i].text = map[i].v.desc
             /\ f[2 * i + 1].name = to_ascii_uppercase(map[i].k)
        /\ LET core == Len(CoreKinds(Len(map)))
               rest == SubSeq(KindSeq(f), core + 1, Len(f))
           IN  IF has_hook
               THEN rest \in {<<"hook_banner">>, <<"hook_banner", "hook_out">>}
               ELSE rest = <<>>

\* a run with three constants and a hook that wrote
C6_Witness ==
    /\ result = "Ok"
    /\ Len(map) = 3
    /\ has_hook
    /\ f[Len(f)].kind = "hook_out"

\* ------------------------------------------------------------------------
\* C7
\* ------------------------------------------------------------------------

\* C7: the hook function runs at most once, only with a hook supplied, only
\* after write_all wrote everything and the banner was written; it does not
\* run when a step failed; its error is what build_inner returns.
C7_Hook ==
    /\ hook_calls <= 1
    /\ hook_calls = 1 =>
         /\ has_hook
         /\ IsPrefix(CoreKinds(Len(map)) \o <<"hook_banner">>, KindSeq(f))
         /\ pc = "returned"
         /\ result = hook_ret
    /\ result \in {"IOError", "EnvError", "panic"} => hook_calls = 0
    /\ hook_ret \notin {"none", "Ok"} => result = hook_ret

\* the hook ran and failed
C7_Witness ==
    /\ hook_calls = 1
    /\ hook_ret = "HookError2"
    /\ result = "HookError2"

\* ------------------------------------------------------------------------
\* C8
\* ------------------------------------------------------------------------

\* the file without the generation time
StripTime(file) ==
    [i \in 1..Len(file) |-> IF file[i].kind = "header"
                            THEN [file[i] EXCEPT !.time = 0] ELSE file[i]]

\* what the emission steps wrote, without the hook's part
Emission(file) == SelectSeq(file, LAMBDA c : c.kind \notin {"hook_banner", "hook_out"})

DefineKeysAscending(file) ==
    /\ Ascending(KeySeq(map))
    /\ [i \in 1..Len(ChunksOfKind(file, "define")) |-> ChunksOfKind(file, "define")[i].name]
         = [i \in 1..Len(map) |-> to_ascii_uppercase(map[i].k)]

C9_WriteFailureAborts ==
    [][/\ result = "none"
       /\ result' = "IOError" =>
            /\ pc' = "returned"
            /\ IsPrefix(f, f')
            /\ hook_calls' = 0]_vars

\* a write failed in the middle of the constants
C9_Witness ==
    /\ result = "IOError"
    /\ Len(f) >= 3
    /\ f[Len(f)].kind \in {"doc", "define"}
    /\ idx < Len(map)

\* ------------------------------------------------------------------------
\* C10
\* ------------------------------------------------------------------------

\* C10: print_build_in has one line per registry entry, in registry order,
\* then one line for VERSION and one for CLAP_LONG_VERSION; Slice entries are
\* printed in debug form, the others in display form; every identifier a
\* line references is a constant the definition step emitted or a version
\* identifier.
C10_DumpLines ==
    \A i \in 1..Len(f) :
        f[i].kind = "print_build_in" =>
            /\ Len(f[i].lines) = Len(map) + 2
            /\ \A j \in 1..Len(map) :
                 /\ f[i].lines[j].label = map[j].k
                 /\ f[i].lines[j].fmt = IF map[j].v.t = "Slice" THEN "debug" ELSE "display"
            /\ f[i].lines[Len(map) + 1].ref = BUILD_CONST_VERSION
            /\ f[i].lines[Len(map) + 2].ref = BUILD_CONST_CLAP_LONG_VERSION
            /\ \A j \in 1..Len(f[i].lines) :
                 f[i].lines[j].ref \in
                     DefinedNames \cup {BUILD_CONST_VERSION, BUILD_CONST_CLAP_LONG_VERSION}

====
